---- MODULE Spec2Model ----
(***************************************************************************)
(* ProxyGather orchestration core: the Validation Dispatcher               *)
(* (CheckProxies.run_checker_pipeline), the Unified Coordinator            *)
(* (ProxyGather.cmd_run) and the Termination Coordinator                   *)
(* (helper/termination.py).                                                *)
(*                                                                         *)
(* Candidates are the integers 1..MaxCand (identity of a candidate is the  *)
(* string itself, so any set of distinct values models them).  A python    *)
(* list is a sequence; python index i is sequence index i + 1.             *)
(***************************************************************************)
EXTENDS Integers, Sequences, FiniteSets, TLC

\* ------------------------------------------------------------------ bounds
MaxCand == 3        \* distinct candidate strings
MaxThreads == 1     \* largest configured worker count args.threads
MaxInput == 1       \* longest list of additional input-file candidates
MaxReports == 2     \* candidates reported by all discovery events of a unified run
MaxRunCand == 2     \* distinct candidate strings of a unified run
MaxRequests == 4    \* termination requests of one process
MaxDoubtful == 1    \* candidates of a long run whose validate outcome is open

\* ------------------------------------------------------- program constants
SAVE_BATCH_SIZE == 25
NoneSentinel == 0   \* the end-of-stream marker None on the channel
KillLimit == 3      \* "remaining = 3 - self._kill_counter"

Candidates == 1..MaxCand
Sources == {"A", "B"}
Protocols == {"http", "socks4", "socks5"}
Buckets == {"all"} \cup Protocols

\* what one validate call can come to: None, an exception, or details with a
\* list of protocols (a protocol outside the buckets is possible)
Results ==
    {[kind |-> "unusable", protocols |-> {}], [kind |-> "raises", protocols |-> {}]}
    \cup {[kind |-> "usable", protocols |-> ps] :
            ps \in {{"http"}, {"socks4", "socks5", "https"}}}

VARIABLES
    \* --- run_checker_pipeline
    live,               \* input_queue is not None
    threads,            \* args.threads
    pending_list,       \* list(initial_proxies)
    pending_index,
    pipeline_mode,
    input_queue,        \* content of proxy_queue
    futs,               \* every future the executor created: proxy, state, result
    in_flight,          \* keys of the dict in_flight (values are futs[f].proxy)
    done_futures,       \* done_futures still to be handled by the for loop
    submitted_proxies,
    working_proxies,
    executor_shutdown,  \* executor.shutdown was called
    files,              \* content of the output file of each bucket ({} = no file)
    last_write,         \* kind of the latest _save_working_proxies call
    resume_file,        \* <<>> = not written, <<S>> = written with the set S
    pc,                 \* position of the main thread in run_checker_pipeline
    validator_calls,    \* checker.check_proxy invocations per candidate
    \* --- termination coordinator, as seen by the dispatcher
    terminating,
    kill_counter,
    \* --- cmd_run
    proxy_to_sources,
    checked_cache,      \* <<>> = absent, <<b>> = cached outcome b
    scraped,            \* stats[s]['scraped'], kept per candidate
    working,            \* stats[s]['working'], kept per candidate
    scraper_pc,         \* the ScraperOrchestrator thread
    events,             \* candidates reported by the discovery events so far
    reports,            \* times source s has reported candidate c
    queue_puts,         \* proxy_queue.put(proxy) calls of on_proxy_scraped, per candidate
    sentinel_puts,      \* proxy_queue.put(None) calls
    put_after_sentinel, \* a candidate was put after the marker
    \* --- TerminationHandler, step by step
    stack,              \* per thread: the frames of its calls into the handler
    lock,               \* self._lock: <<>> = free, <<t, d>> = held by frame d of thread t
    callbacks,          \* self._callbacks
    invoked,            \* times each callback was called
    invoked_by,         \* the requests (by kill-counter value) that called it
    exited,             \* os._exit(1) was called
    requests,           \* request_termination calls started
    at_first,           \* self._callbacks when the flag was set
    snap_first,         \* list(self._callbacks) of the first request
    first_returned,     \* the first request has returned
    \* --- load_proxies_from_patterns
    file_lines,         \* the lines of the input files, in reading order
    callback_log,       \* the calls result_callback(proxy, ok, details) made so far
    cb_raised,          \* the cleanup callbacks whose call raised
    send_locks,         \* for each proxy_queue.put so far, the locks its caller held
    \* --- termination_context and the signal table
    scopes,             \* the termination scopes entered and not yet left, outermost first
    signals_registered, \* self._signals_registered
    original_handlers,  \* self._original_handlers[SIGINT]: <<>> = no entry
    sigint_handler,     \* the handler the process has installed for SIGINT
    \* --- ScrapeAllProxies.main
    tasks_to_run,
    fut_state,          \* state of the future of each task
    fut_outcome,        \* what the scraper function of each task came to
    pending_futures,
    s_done_futures,     \* done_futures of the collection loop, still to be handled
    results,            \* <<>> = no entry, <<l>> = results[name] is l
    executors_shutdown, \* the pools executor.shutdown was called on
    finally_index,      \* pools the shutdown loop of the finally block is done with
    final_proxies,      \* <<>> = not computed yet, <<S>> = the final list, as a set
    s_pc                \* position of main() in the collection and what follows

dvars == <<live, threads, pending_list, pending_index, pipeline_mode, input_queue,
           futs, in_flight, done_futures, submitted_proxies, working_proxies,
           executor_shutdown, files, last_write, resume_file, pc, validator_calls>>
kvars == <<terminating, kill_counter>>
cvars == <<proxy_to_sources, checked_cache, scraped, working, scraper_pc, events, reports,
           queue_puts, sentinel_puts, put_after_sentinel>>
tvars == <<stack, lock, callbacks, invoked, invoked_by, exited, requests, at_first,
           snap_first, first_returned>>
lvars == <<file_lines, callback_log, cb_raised, send_locks>>
gvars == <<scopes, signals_registered, original_handlers, sigint_handler>>
svars == <<tasks_to_run, fut_state, fut_outcome, pending_futures, s_done_futures, results,
           executors_shutdown, finally_index, final_proxies, s_pc>>
evars == <<lvars, gvars, svars>>
vars == <<dvars, kvars, cvars, tvars, evars>>

\* ----------------------------------------------------------------- helpers
Range(s) == {s[i] : i \in 1..Len(s)}
\* the duplicate-free lists <<1>>, <<1, 2>>, ... of at most n candidates: the
\* candidates differ in identity only, so one list of each length stands for
\* every de-duplicated, shuffled list of that length
DistinctLists(n) == {[i \in 1..k |-> i] : k \in 0..n}
RECURSIVE SumOver(_, _)
SumOver(f, S) ==
    IF S = {} THEN 0
    ELSE LET x == CHOOSE y \in S : TRUE IN f[x] + SumOver(f, S \ {x})

\* stats[s]['scraped'] and stats[s]['working']
StatsScraped(s) == SumOver(scraped[s], Candidates)
StatsWorking(s) == SumOver(working[s], Candidates)

\* values of the dict in_flight
InFlightValues == {futs[f].proxy : f \in in_flight}

NoResult == [kind |-> "none", protocols |-> {}]

\* ------------------------------------------------- the worker pool (executor)
\* executor.submit(check_and_format_proxy, checker, proxy): a new pending future
NewFuture(p) == [proxy |-> p, state |-> "pending", result |-> NoResult]

Running == {f \in 1..Len(futs) : futs[f].state = "running"}
Pending == {f \in 1..Len(futs) : futs[f].state = "pending"}

\* executor.shutdown(wait=False, cancel_futures=True): the work queue is drained
\* and its futures cancelled; running calls go on
ShutdownExecutor(fs) ==
    [f \in 1..Len(fs) |->
        IF fs[f].state = "pending" THEN [fs[f] EXCEPT !.state = "cancelled"] ELSE fs[f]]

\* a worker thread takes the oldest pending future and calls checker.check_proxy
WorkerStart ==
    /\ Pending # {}
    /\ Cardinality(Running) < threads
    /\ LET f == CHOOSE g \in Pending : \A h \in Pending : g <= h IN
        /\ futs' = [futs EXCEPT ![f].state = "running"]
        /\ validator_calls' =
              [validator_calls EXCEPT ![futs[f].proxy] = validator_calls[futs[f].proxy] + 1]
    /\ UNCHANGED <<live, threads, pending_list, pending_index, pipeline_mode, input_queue,
                   in_flight, done_futures, submitted_proxies, working_proxies,
                   executor_shutdown, files, last_write, resume_file, pc, terminating,
                   kill_counter, cvars, tvars, evars>>

\* the validate call of a running future returns or raises
WorkerFinish(f, r) ==
    /\ f \in Running
    /\ futs' = [futs EXCEPT ![f].state = "finished", ![f].result = r]
    /\ UNCHANGED <<live, threads, pending_list, pending_index, pipeline_mode, input_queue,
                   in_flight, done_futures, submitted_proxies, working_proxies,
                   executor_shutdown, files, last_write, resume_file, pc, validator_calls,
                   terminating, kill_counter, cvars, tvars, evars>>

\* ------------------------------------------------------ result callback
\* on_proxy_checked(proxy, is_working, details), under stats_lock
CreditedSources(proxy) == proxy_to_sources[proxy]

OnProxyChecked(proxy, is_working) ==
    /\ checked_cache' = [checked_cache EXCEPT ![proxy] = <<is_working>>]
    /\ working' =
          IF is_working
          THEN [s \in Sources |->
                  IF s \in CreditedSources(proxy)
                  THEN [working[s] EXCEPT ![proxy] = working[s][proxy] + 1]
                  ELSE working[s]]
          ELSE working

\* "if result_callback: result_callback(proxy, ok, details)"; cmd_run passes
\* on_proxy_checked, cmd_check passes nothing
ResultCallback(proxy, is_working, details) ==
    IF live
    THEN /\ OnProxyChecked(proxy, is_working)
         /\ callback_log' = callback_log \cup {<<proxy, is_working, details>>}
    ELSE UNCHANGED <<checked_cache, working, callback_log>>

\* every result counts as Usable
Usable_Always(r) == TRUE

\* "if result:" of a future.result() that returned
Usable(r) == r.kind = "usable"

\* ------------------------------------------------------ run_checker_pipeline
\* _save_working_proxies: every non-empty bucket is written over its file
SaveWorkingProxies(proxy_data) ==
    [b \in Buckets |-> IF proxy_data[b] # {} THEN proxy_data[b] ELSE files[b]]

\* a window one call too wide
WindowOpen_OffByOne == Cardinality(in_flight) <= threads * 2

\* "while len(in_flight) < args.threads * 2"
WindowOpen == Cardinality(in_flight) < threads * 2

\* no submission dedupe
NotYetSubmitted_NoDedupe(p) == TRUE

\* "if proxy_to_check not in submitted_proxies"
NotYetSubmitted(p) == p \notin submitted_proxies

\* "if should_terminate(): break"
CheckTerminate ==
    /\ pc = "loop"
    /\ pc' = IF terminating THEN "after_loop" ELSE "topup"
    /\ UNCHANGED <<live, threads, pending_list, pending_index, pipeline_mode, input_queue,
                   futs, in_flight, done_futures, submitted_proxies, working_proxies,
                   executor_shutdown, files, last_write, resume_file, validator_calls,
                   terminating, kill_counter, cvars, tvars, evars>>

\* "if in_flight: done_futures, _ = wait(in_flight.keys(), timeout=0.1, ...)": the
\* finished futures; a cancelled future that no worker took is never reported
Wait(inflight) == {f \in inflight : futs[f].state = "finished"}

\* the exit test without "not pipeline_mode"
Exhausted_NoMode(inflight, mode, index) == inflight = {} /\ index >= Len(pending_list)

\* "if not in_flight and not pipeline_mode and pending_index >= len(pending_list): break"
Exhausted(inflight, mode, index) == inflight = {} /\ ~mode /\ index >= Len(pending_list)

\* the end of a pass of "while True": leave the loop, or go round again
ExitCheck(inflight, mode, index) ==
    IF Exhausted(inflight, mode, index) THEN "after_loop" ELSE "loop"

\* the top-up loop is left: wait() is called, and with nothing done the pass ends
LeaveTopUp(mode) ==
    /\ done_futures' = Wait(in_flight)
    /\ pc' = IF Wait(in_flight) # {} THEN "collect"
             ELSE ExitCheck(in_flight, mode, pending_index)

\* the executor takes new work whatever its state
SubmitRejected_Never == FALSE

\* executor.submit on an executor that was shut down raises RuntimeError
SubmitRejected == executor_shutdown

\* one iteration of the top-up loop.  executor.submit raises RuntimeError once the
\* executor is shut down; "except Exception as e: ... return" ends the run.
TopUp ==
    /\ pc = "topup"
    /\ IF ~WindowOpen
       THEN /\ LeaveTopUp(pipeline_mode)
            /\ UNCHANGED <<pipeline_mode, input_queue, pending_index, futs, in_flight,
                           submitted_proxies>>
       ELSE IF live /\ input_queue # <<>> /\ Head(input_queue) = NoneSentinel
       THEN /\ pipeline_mode' = FALSE
            /\ input_queue' = Tail(input_queue)
            /\ LeaveTopUp(FALSE)
            /\ UNCHANGED <<pending_index, futs, in_flight, submitted_proxies>>
       ELSE LET fromQueue == live /\ input_queue # <<>>
                fromList == ~fromQueue /\ pending_index < Len(pending_list)
                p == IF fromQueue THEN Head(input_queue)
                     ELSE pending_list[pending_index + 1]
            IN  IF ~fromQueue /\ ~fromList
                THEN /\ LeaveTopUp(pipeline_mode)
                     /\ UNCHANGED <<pipeline_mode, input_queue, pending_index, futs,
                                    in_flight, submitted_proxies>>
                ELSE /\ input_queue' = IF fromQueue THEN Tail(input_queue) ELSE input_queue
                     /\ pending_index' = IF fromList THEN pending_index + 1 ELSE pending_index
                     /\ UNCHANGED <<pipeline_mode, done_futures>>
                     /\ IF ~NotYetSubmitted(p)
                        THEN /\ pc' = "topup"
                             /\ UNCHANGED <<futs, in_flight, submitted_proxies>>
                        ELSE IF SubmitRejected
                        THEN /\ pc' = "aborted"
                             /\ UNCHANGED <<futs, in_flight, submitted_proxies>>
                        ELSE /\ futs' = Append(futs, NewFuture(p))
                             /\ in_flight' = in_flight \cup {Len(futs) + 1}
                             /\ submitted_proxies' = submitted_proxies \cup {p}
                             /\ pc' = "topup"
    /\ UNCHANGED <<live, threads, pending_list, working_proxies,
                   executor_shutdown, files, last_write, resume_file, validator_calls,
                   terminating, kill_counter, cvars, tvars, evars>>

\* a Usable candidate is left out of the buckets
AddWorking_Skip(proxy, protocols) == working_proxies

\* buckets after "working_proxies['all'].add(line)" and the protocol loop
AddWorking(proxy, protocols) ==
    [b \in Buckets |->
        IF b = "all" \/ b \in protocols
        THEN working_proxies[b] \cup {proxy}
        ELSE working_proxies[b]]

\* an interim write after every Usable result
InterimDue_Always(wp) == TRUE

\* "len(working_proxies['all']) % SAVE_BATCH_SIZE == 0"
InterimDue(wp) == Cardinality(wp["all"]) % SAVE_BATCH_SIZE = 0

\* one pass of "for future in done_futures"; after the last one the pass of
\* "while True" ends
Collect(f) ==
    /\ pc = "collect"
    /\ f \in done_futures
    /\ LET proxy == futs[f].proxy
           r == futs[f].result
           ok == Usable(r)
           wp == IF ok THEN AddWorking(proxy, r.protocols) ELSE working_proxies
       IN  /\ in_flight' = in_flight \ {f}
           /\ done_futures' = done_futures \ {f}
           /\ working_proxies' = wp
           /\ IF ok /\ InterimDue(wp)
              THEN files' = SaveWorkingProxies(wp) /\ last_write' = "interim"
              ELSE UNCHANGED <<files, last_write>>
           /\ ResultCallback(proxy, ok, IF ok THEN r.protocols ELSE {})
           /\ pc' = IF done_futures = {f}
                    THEN ExitCheck(in_flight \ {f}, pipeline_mode, pending_index)
                    ELSE "collect"
    /\ UNCHANGED <<live, threads, pending_list, pending_index, pipeline_mode, input_queue,
                   futs, submitted_proxies, executor_shutdown, resume_file,
                   validator_calls, terminating, kill_counter, proxy_to_sources,
                   scraped, scraper_pc, events, reports, queue_puts, sentinel_puts,
                   put_after_sentinel, tvars, file_lines, cb_raised,
                   send_locks, gvars,
                   svars>>

\* save_resume_file: "remaining"
Remaining == (Range(pending_list) \ submitted_proxies) \cup InFlightValues

\* "if should_terminate(): ... save_resume_file()"
AfterLoop ==
    /\ pc = "after_loop"
    /\ resume_file' =
          IF terminating /\ ~live /\ Remaining # {} THEN <<Remaining>> ELSE resume_file
    /\ pc' = "final"
    /\ UNCHANGED <<live, threads, pending_list, pending_index, pipeline_mode, input_queue,
                   futs, in_flight, done_futures, submitted_proxies, working_proxies,
                   executor_shutdown, files, last_write, validator_calls, terminating,
                   kill_counter, cvars, tvars, evars>>

\* "if total > 0: _save_working_proxies(..., is_final=True)"
FinalSave ==
    /\ pc = "final"
    /\ IF Cardinality(working_proxies["all"]) > 0
       THEN files' = SaveWorkingProxies(working_proxies) /\ last_write' = "final"
       ELSE UNCHANGED <<files, last_write>>
    /\ pc' = "done"
    /\ UNCHANGED <<live, threads, pending_list, pending_index, pipeline_mode, input_queue,
                   futs, in_flight, done_futures, submitted_proxies, working_proxies,
                   executor_shutdown, resume_file, validator_calls, terminating,
                   kill_counter, cvars, tvars, evars>>

\* the dispatcher's termination scope is entered and not yet left
InScope == pc \in {"loop", "topup", "collect", "after_loop", "final"}

\* the first termination request (a signal handled by
\* TerminationHandler.request_termination) while the dispatcher runs: the handler
\* runs to its end on the main thread before the loop resumes; it sets the flag
\* and runs the registered callback shutdown_executor.  Later requests change
\* only the coordinator's kill counter (see Increment below).
Interrupt ==
    /\ InScope
    /\ ~terminating
    /\ terminating' = TRUE
    /\ kill_counter' = kill_counter + 1
    /\ executor_shutdown' = TRUE
    /\ futs' = ShutdownExecutor(futs)
    /\ UNCHANGED <<live, threads, pending_list, pending_index, pipeline_mode, input_queue,
                   in_flight, done_futures, submitted_proxies, working_proxies, files,
                   last_write, resume_file, pc, validator_calls, cvars, tvars, evars>>

\* ------------------------------------------------------ ScrapeAllProxies.main
\* A candidate string is a sequence of tokens; an octet with its dot is one token,
\* so a match of the regex at the start of the string is a prefix of tokens.
Public == <<"8.", "8.8.8", ":80">>
PublicLike == <<"192.", "8.1.1", ":80">>
Loopback == <<"127.", "0.0.1", ":80">>
PrivateTrailing == <<"192.", "168.", "1.1", ":80", " ">>
PrivateLeading == <<" ", "10.", "0.0.1", ":80">>
PrivateAuth == <<"user:pass@", "10.", "0.0.1", ":80">>
Blank == <<" ">>
CandidateStrings ==
    {Public, PublicLike, Loopback, PrivateTrailing, PrivateLeading, PrivateAuth, Blank}

\* INVALID_IP_REGEX, one prefix for each alternative (the first of each range)
InvalidPrefixes ==
    {<<"10.">>, <<"127.">>, <<"192.", "168.">>, <<"172.", "16.">>, <<"169.", "254.">>,
     <<"0.">>, <<"224.">>, <<"240.">>}

\* INVALID_IP_REGEX.match(p): anchored at the first character of p
RegexMatch(p) ==
    \E q \in InvalidPrefixes : Len(q) <= Len(p) /\ SubSeq(p, 1, Len(q)) = q

\* "if p and p.strip()"
NonBlank(p) == p # <<>> /\ \E i \in 1..Len(p) : p[i] # " "

\* the tasks, in the order of all_scraper_tasks
TaskOrder == <<"ProxyScrape", "Spys.one", "OpenProxyList", "Hide.mn">>
TaskNames == Range(TaskOrder)
HEADFUL_SCRAPERS == {"Hide.mn", "Spys.one"}
AUTOMATION_SCRAPER_NAMES == {"OpenProxyList", "Hide.mn", "Spys.one"}
HeadfulWorkers == 1

\* the pool a task is submitted to, and the pools in the order they are created
PoolOf(name) ==
    IF name \in HEADFUL_SCRAPERS THEN "headful"
    ELSE IF name \in AUTOMATION_SCRAPER_NAMES THEN "headless"
    ELSE "normal"
PoolOrder == <<"normal", "headless", "headful">>
Executors(tasks) == SelectSeq(PoolOrder, LAMBDA pool : \E t \in tasks : PoolOf(t) = pool)

\* every pool with as many workers as a task may use
PoolSize_Wide(pool) == Cardinality(TaskNames)

\* max_workers: args.threads and args.automation_threads are no fewer than the
\* tasks here; the headful pool has one worker
PoolSize(pool) == IF pool = "headful" THEN HeadfulWorkers ELSE Cardinality(TaskNames)

\* what a scraper function can come to: it raises, or returns a list
SampleList == <<Public, PublicLike, Loopback, PrivateTrailing, PrivateLeading,
                PrivateAuth, Blank>>
Raises == [kind |-> "raises", data |-> <<>>]
Returns(l) == [kind |-> "returns", data |-> l]
NoOutcome == [kind |-> "none", data |-> <<>>]
TaskOutcomes(name) ==
    IF name \in AUTOMATION_SCRAPER_NAMES
    THEN {Raises, Returns(<<Public>>)}
    ELSE {Raises, Returns(<<>>), Returns(SampleList)}

\* run_automation_task: "except Exception ... return []"
RunAutomationTask(o) == IF o.kind = "raises" THEN Returns(<<>>) ELSE o

\* what the future of a task holds when it is finished
FutureOutcome(name) ==
    IF name \in AUTOMATION_SCRAPER_NAMES
    THEN RunAutomationTask(fut_outcome[name])
    ELSE fut_outcome[name]

\* a failed task leaves no entry
RecordOf_Drop(name) ==
    IF fut_state[name] = "finished" /\ FutureOutcome(name).kind = "returns"
    THEN <<FutureOutcome(name).data>>
    ELSE <<>>

\* "results[name] = result_data", or "results[name] = []" when future.result()
\* raises (the task raised, or the future was cancelled)
RecordOf(name) ==
    IF fut_state[name] = "finished" /\ FutureOutcome(name).kind = "returns"
    THEN <<FutureOutcome(name).data>>
    ELSE << <<>> >>

TasksIn(pool) == {t \in tasks_to_run : PoolOf(t) = pool}
RunningIn(pool) == {t \in TasksIn(pool) : fut_state[t] = "running"}
Position(name) == CHOOSE i \in 1..Len(TaskOrder) : TaskOrder[i] = name

\* executor.shutdown(..., cancel_futures=True) on the pools ps
CancelPending(fs, ps) ==
    [t \in TaskNames |->
        IF fs[t] = "pending" /\ PoolOf(t) \in ps THEN "cancelled" ELSE fs[t]]

\* a worker of the task's pool takes it: the oldest pending task of that pool
TaskStart(name) ==
    /\ name \in tasks_to_run
    /\ fut_state[name] = "pending"
    /\ Cardinality(RunningIn(PoolOf(name))) < PoolSize(PoolOf(name))
    /\ \A t \in TasksIn(PoolOf(name)) :
          fut_state[t] = "pending" => Position(name) <= Position(t)
    /\ fut_state' = [fut_state EXCEPT ![name] = "running"]
    /\ UNCHANGED <<tasks_to_run, fut_outcome, pending_futures, s_done_futures, results,
                   executors_shutdown, finally_index, final_proxies, s_pc, dvars, kvars,
                   cvars, tvars, lvars, gvars>>

\* the scraper function of a running task returns or raises
TaskFinish(name, o) ==
    /\ fut_state[name] = "running"
    /\ fut_state' = [fut_state EXCEPT ![name] = "finished"]
    /\ fut_outcome' = [fut_outcome EXCEPT ![name] = o]
    /\ UNCHANGED <<tasks_to_run, pending_futures, s_done_futures, results,
                   executors_shutdown, finally_index, final_proxies, s_pc, dvars, kvars,
                   cvars, tvars, lvars, gvars>>

\* "while pending_futures: if should_terminate(): break" and
\* "done_futures, _ = wait(pending_futures, timeout=0.5, ...)".  Leaving the loop
\* enters the finally block, whose first shutdown(wait=True, cancel_futures=True)
\* cancels the queued tasks of the first pool.
Poll ==
    /\ s_pc = "poll"
    /\ IF pending_futures = {} \/ terminating
       THEN /\ s_pc' = "finally"
            /\ fut_state' = CancelPending(fut_state, {Executors(tasks_to_run)[1]})
            /\ executors_shutdown' = executors_shutdown \cup {Executors(tasks_to_run)[1]}
            /\ UNCHANGED s_done_futures
       ELSE LET done == {t \in pending_futures : fut_state[t] = "finished"} IN
            /\ s_done_futures' = done
            /\ s_pc' = IF done = {} THEN "poll" ELSE "for"
            /\ UNCHANGED <<fut_state, executors_shutdown>>
    /\ UNCHANGED <<tasks_to_run, fut_outcome, pending_futures, results, finally_index,
                   final_proxies, dvars, kvars, cvars, tvars, lvars, gvars>>

\* one pass of "for future in done_futures"
CollectResult(name) ==
    /\ s_pc = "for"
    /\ name \in s_done_futures
    /\ pending_futures' = pending_futures \ {name}
    /\ s_done_futures' = s_done_futures \ {name}
    /\ results' = [results EXCEPT ![name] = RecordOf(name)]
    /\ s_pc' = IF s_done_futures = {name} THEN "poll" ELSE "for"
    /\ UNCHANGED <<tasks_to_run, fut_state, fut_outcome, executors_shutdown,
                   finally_index, final_proxies, dvars, kvars, cvars, tvars, lvars, gvars>>

\* "executor.shutdown(wait=True, cancel_futures=True)" returns for the pool the
\* finally loop is at, once no task of that pool is running; the loop goes on to
\* the next pool and cancels its queued tasks
JoinPool ==
    /\ s_pc = "finally"
    /\ finally_index < Len(Executors(tasks_to_run))
    /\ RunningIn(Executors(tasks_to_run)[finally_index + 1]) = {}
    /\ finally_index' = finally_index + 1
    /\ IF finally_index + 1 < Len(Executors(tasks_to_run))
       THEN /\ fut_state' = CancelPending(fut_state, {Executors(tasks_to_run)[finally_index + 2]})
            /\ executors_shutdown' =
                  executors_shutdown \cup {Executors(tasks_to_run)[finally_index + 2]}
       ELSE UNCHANGED <<fut_state, executors_shutdown>>
    /\ UNCHANGED <<tasks_to_run, fut_outcome, pending_futures, s_done_futures, results,
                   final_proxies, s_pc, dvars, kvars, cvars, tvars, lvars, gvars>>

\* the finally block without its recovery pass
Recover_Skip ==
    /\ s_pc = "finally"
    /\ finally_index = Len(Executors(tasks_to_run))
    /\ s_pc' = "post"
    /\ UNCHANGED <<tasks_to_run, fut_state, fut_outcome, pending_futures, s_done_futures,
                   results, executors_shutdown, finally_index, final_proxies, dvars, kvars,
                   cvars, tvars, lvars, gvars>>

\* the recovery pass: "if name not in results and future.done()"
Recover ==
    /\ s_pc = "finally"
    /\ finally_index = Len(Executors(tasks_to_run))
    /\ results' = [t \in TaskNames |->
                     IF t \in tasks_to_run /\ results[t] = <<>>
                        /\ fut_state[t] \in {"finished", "cancelled"}
                     THEN RecordOf(t)
                     ELSE results[t]]
    /\ s_pc' = "post"
    /\ UNCHANGED <<tasks_to_run, fut_state, fut_outcome, pending_futures, s_done_futures,
                   executors_shutdown, finally_index, final_proxies, dvars, kvars, cvars,
                   tvars, lvars, gvars>>

\* "combined_proxies = {p for proxy_list in results.values() if proxy_list for p in
\* proxy_list if p and p.strip()}"
CombinedProxies(res) ==
    {p \in UNION {Range(res[t][1]) : t \in {u \in TaskNames : res[u] # <<>>}} : NonBlank(p)}

\* "final_proxies = sorted(list({p for p in combined_proxies if not
\* INVALID_IP_REGEX.match(p)}))"
FinalProxies(res) == {p \in CombinedProxies(res) : ~RegexMatch(p)}

PostProcess ==
    /\ s_pc = "post"
    /\ final_proxies' = <<FinalProxies(results)>>
    /\ s_pc' = "done"
    /\ UNCHANGED <<tasks_to_run, fut_state, fut_outcome, pending_futures, s_done_futures,
                   results, executors_shutdown, finally_index, dvars, kvars, cvars, tvars,
                   lvars, gvars>>

\* the first termination request while main() is in its termination scope: the
\* handler sets the flag and runs shutdown_all_executors, which calls
\* shutdown(wait=False, cancel_futures=True) on every pool
InterruptScrape ==
    /\ s_pc \in {"poll", "for", "finally", "post"}
    /\ ~terminating
    /\ terminating' = TRUE
    /\ kill_counter' = kill_counter + 1
    /\ fut_state' = CancelPending(fut_state, Range(Executors(tasks_to_run)))
    /\ executors_shutdown' = Range(Executors(tasks_to_run))
    /\ UNCHANGED <<tasks_to_run, fut_outcome, pending_futures, s_done_futures, results,
                   finally_index, final_proxies, s_pc, dvars, cvars, tvars, lvars, gvars>>

\* main() is not running
InitScrapeIdle ==
    /\ tasks_to_run = {}
    /\ fut_state = [t \in TaskNames |-> "none"]
    /\ fut_outcome = [t \in TaskNames |-> NoOutcome]
    /\ pending_futures = {}
    /\ s_done_futures = {}
    /\ results = [t \in TaskNames |-> <<>>]
    /\ executors_shutdown = {}
    /\ finally_index = 0
    /\ final_proxies = <<>>
    /\ s_pc = "none"

\* no termination scope was entered; the process has python's default handler
InitScopeIdle ==
    /\ scopes = <<>>
    /\ signals_registered = FALSE
    /\ original_handlers = <<>>
    /\ sigint_handler = "default"

\* ------------------------------------------------------------ cmd_check
Threads == {"main", "worker"}
CallbackNames == {"shutdown_executor", "shutdown_all_executors"}

\* the step-by-step handler state is not used by the dispatcher runs
InitHandlerIdle ==
    /\ stack = [t \in Threads |-> <<>>]
    /\ lock = <<>>
    /\ callbacks = {}
    /\ invoked = [cb \in CallbackNames |-> 0]
    /\ invoked_by = [cb \in CallbackNames |-> {}]
    /\ exited = FALSE
    /\ requests = 0
    /\ at_first = {}
    /\ snap_first = {}
    /\ first_returned = FALSE
    /\ cb_raised = {}
    /\ send_locks = {}

NoFiles == [b \in Buckets |-> {}]

InitCoordinatorIdle ==
    /\ proxy_to_sources = [c \in Candidates |-> {}]
    /\ checked_cache = [c \in Candidates |-> <<>>]
    /\ scraped = [s \in Sources |-> [c \in Candidates |-> 0]]
    /\ working = [s \in Sources |-> [c \in Candidates |-> 0]]
    /\ events = 0
    /\ reports = [s \in Sources |-> [c \in Candidates |-> 0]]
    /\ queue_puts = [c \in Candidates |-> 0]
    /\ sentinel_puts = 0
    /\ put_after_sentinel = FALSE

InitDispatcher ==
    /\ threads \in 1..MaxThreads
    /\ pending_index = 0
    /\ futs = <<>>
    /\ in_flight = {}
    /\ done_futures = {}
    /\ submitted_proxies = {}
    /\ working_proxies = [b \in Buckets |-> {}]
    /\ executor_shutdown = FALSE
    /\ files = NoFiles
    /\ last_write = "none"
    /\ resume_file = <<>>
    /\ pc = "loop"
    /\ validator_calls = [c \in Candidates |-> 0]
    /\ terminating = FALSE
    /\ kill_counter = 0

\* cmd_check: a static list, de-duplicated and shuffled by load_proxies_from_patterns
InitCheck ==
    /\ live = FALSE
    /\ pending_list \in DistinctLists(MaxCand) \ {<<>>}
    /\ pipeline_mode = FALSE
    /\ input_queue = <<>>
    /\ scraper_pc = "none"
    /\ InitDispatcher
    /\ InitCoordinatorIdle
    /\ InitHandlerIdle
    /\ file_lines = pending_list
    /\ callback_log = {}
    /\ InitScopeIdle
    /\ InitScrapeIdle

NextCheck ==
    \/ CheckTerminate
    \/ TopUp
    \/ \E f \in 1..Len(futs) : Collect(f)
    \/ AfterLoop
    \/ FinalSave
    \/ WorkerStart
    \/ \E f \in 1..Len(futs), r \in Results : WorkerFinish(f, r)
    \/ Interrupt

SpecCheck == InitCheck /\ [][NextCheck]_vars

\* ------------------------------------------------------------ cmd_run
RunCandidates == 1..MaxRunCand
\* validate outcomes drawn in a unified run
RunResults == {r \in Results : r.kind = "unusable" \/ r.protocols = {"http"}}
Batches == UNION {[1..k -> RunCandidates] : k \in 1..MaxReports}

\* no replay of the cached outcome
KnownWorking_Never(cache, proxy) == FALSE

\* "if proxy in checked_cache and checked_cache[proxy]"
KnownWorking(cache, proxy) == cache[proxy] = <<TRUE>>

\* "if len(proxy_to_sources[proxy]) == 1"
FirstSource(pts, proxy) == Cardinality(pts[proxy]) = 1

\* the body of "for proxy in proxies_list" for the proxies i..Len(batch), from the
\* maps st = [pts, wk, q, puts, late]
RECURSIVE ScrapeLoop(_, _, _, _)
ScrapeLoop(source_id, batch, i, st) ==
    IF i > Len(batch) THEN st
    ELSE LET proxy == batch[i]
             pts == [st.pts EXCEPT ![proxy] = st.pts[proxy] \cup {source_id}]
             wk == IF KnownWorking(checked_cache, proxy)
                   THEN [st.wk EXCEPT ![proxy] = st.wk[proxy] + 1]
                   ELSE st.wk
             put == FirstSource(pts, proxy)
         IN  ScrapeLoop(source_id, batch, i + 1,
                 [pts |-> pts,
                  wk |-> wk,
                  q |-> IF put THEN Append(st.q, proxy) ELSE st.q,
                  puts |-> IF put THEN [st.puts EXCEPT ![proxy] = st.puts[proxy] + 1]
                           ELSE st.puts,
                  late |-> st.late \/ (put /\ sentinel_puts > 0)])

\* occurrences of c in the batch: its share of "+= len(proxies_list)"
Occurrences(batch, c) == Cardinality({i \in 1..Len(batch) : batch[i] = c})

\* run_scraper_pipeline calls proxy_found_callback for each discovery event of
\* its producer tasks, while it runs on the scraper thread
ProducerTaskRunning == scraper_pc = "running"

\* the locks on_proxy_scraped holds at "proxy_queue.put(proxy)": the put is inside
\* "with stats_lock:"
StatsLockSection == {"stats_lock"}

\* on_proxy_scraped(scraper_name, source_detail, proxies_found), under stats_lock.
\* The sources differ in name only, so the first event of a run is taken to be A's.
OnProxyScraped(source_id, batch) ==
    /\ ProducerTaskRunning
    /\ (events = 0 => source_id = "A")
    /\ events + Len(batch) <= MaxReports
    /\ events' = events + Len(batch)
    /\ LET st == ScrapeLoop(source_id, batch, 1,
                    [pts |-> proxy_to_sources, wk |-> working[source_id],
                     q |-> input_queue, puts |-> queue_puts,
                     late |-> put_after_sentinel])
       IN  /\ scraped' = [scraped EXCEPT ![source_id] =
                            [c \in Candidates |-> scraped[source_id][c] + Occurrences(batch, c)]]
           /\ proxy_to_sources' = st.pts
           /\ working' = [working EXCEPT ![source_id] = st.wk]
           /\ input_queue' = st.q
           /\ queue_puts' = st.puts
           /\ put_after_sentinel' = st.late
           /\ send_locks' = IF st.puts # queue_puts
                            THEN send_locks \cup {StatsLockSection}
                            ELSE send_locks
           /\ reports' = [reports EXCEPT ![source_id] =
                            [c \in Candidates |-> reports[source_id][c] + Occurrences(batch, c)]]
    /\ UNCHANGED <<live, threads, pending_list, pending_index, pipeline_mode, futs,
                   in_flight, done_futures, submitted_proxies, working_proxies,
                   executor_shutdown, files, last_write, resume_file, pc, validator_calls,
                   terminating, kill_counter, checked_cache, scraper_pc, sentinel_puts,
                   tvars, file_lines, callback_log, cb_raised, gvars, svars>>

\* scraper_worker: run_scraper_pipeline returned; "proxy_queue.put(None)"
ScraperReturn ==
    /\ scraper_pc = "running"
    /\ input_queue' = Append(input_queue, NoneSentinel)
    /\ sentinel_puts' = sentinel_puts + 1
    /\ send_locks' = send_locks \cup {{}}
    /\ scraper_pc' = "ended"
    /\ UNCHANGED <<live, threads, pending_list, pending_index, pipeline_mode, futs,
                   in_flight, done_futures, submitted_proxies, working_proxies,
                   executor_shutdown, files, last_write, resume_file, pc, validator_calls,
                   terminating, kill_counter, proxy_to_sources, checked_cache, scraped,
                   working, events, reports, queue_puts, put_after_sentinel, tvars,
                   file_lines, callback_log, cb_raised, gvars, svars>>

\* the Source Dispatcher leaves by sys.exit(1) ("No scrapers selected to run"),
\* before any task is submitted: SystemExit ends the thread and the put is skipped
ScraperExit ==
    /\ scraper_pc = "running"
    /\ events = 0
    /\ scraper_pc' = "ended"
    /\ UNCHANGED <<dvars, kvars, proxy_to_sources, checked_cache, scraped, working,
                   events, reports, queue_puts, sentinel_puts, put_after_sentinel, tvars,
                   evars>>

\* cmd_run: the channel holds the additional input-file candidates, the scraper
\* thread is started, and run_checker_pipeline runs with input_queue=proxy_queue
InitRun ==
    /\ live = TRUE
    /\ pending_list = <<>>
    /\ pipeline_mode = TRUE
    /\ input_queue \in DistinctLists(MaxInput)
    /\ scraper_pc = "running"
    /\ InitDispatcher
    /\ InitCoordinatorIdle
    /\ InitHandlerIdle
    /\ file_lines = <<>>
    /\ callback_log = {}
    /\ InitScopeIdle
    /\ InitScrapeIdle

NextRun ==
    \/ CheckTerminate
    \/ TopUp
    \/ \E f \in 1..Len(futs) : Collect(f)
    \/ AfterLoop
    \/ FinalSave
    \/ WorkerStart
    \/ \E f \in 1..Len(futs), r \in RunResults : WorkerFinish(f, r)
    \/ Interrupt
    \/ \E s \in Sources, batch \in Batches : OnProxyScraped(s, batch)
    \/ ScraperReturn
    \/ ScraperExit

SpecRun == InitRun /\ [][NextRun]_vars

\* ------------------------------------------------- helper/termination.py
\* TerminationHandler step by step.  A thread's calls into the handler are a
\* stack of frames: a signal handler runs on the main thread on top of whatever
\* frame it interrupts, and only a thread's top frame runs.  A frame is
\* [op, pc, k, todo]: op "rt" = request_termination, "it" = is_terminating;
\* k = the kill-counter value the request obtained; todo = the callbacks of its
\* snapshot still to call.
Frame(op) == [op |-> op, pc |-> "lock", k |-> 0, todo |-> {}]
Depth(t) == Len(stack[t])
Top(t) == stack[t][Depth(t)]
AtTop(t, op, at) == Depth(t) > 0 /\ Top(t).op = op /\ Top(t).pc = at
SetTop(t, f) == [stack EXCEPT ![t] = [@ EXCEPT ![Len(@)] = f]]
Pop(t) == [stack EXCEPT ![t] = SubSeq(@, 1, Len(@) - 1)]
Push(t, f) == [stack EXCEPT ![t] = Append(@, f)]

\* no branch on the flag: every request takes the first-request path
TerminationInProgress_Never == FALSE

\* "if self._terminating" (line 43)
TerminationInProgress == terminating

\* "remaining = 3 - self._kill_counter; if remaining <= 0" (lines 44-45)
ForceExitDue(counter) == KillLimit - counter <= 0

\* SIGINT or SIGTERM is delivered: the handler request_termination starts on the
\* main thread, on top of the frame it interrupts (also one that waits for, or
\* holds, the lock)
Signal ==
    /\ ~exited
    /\ requests < MaxRequests
    /\ requests' = requests + 1
    /\ stack' = Push("main", Frame("rt"))
    /\ UNCHANGED <<lock, callbacks, invoked, invoked_by, exited, at_first, snap_first,
                   first_returned, kvars, dvars, cvars, evars>>

\* request_termination() called from another thread
ExplicitRequest ==
    /\ ~exited
    /\ requests < MaxRequests
    /\ Depth("worker") = 0
    /\ requests' = requests + 1
    /\ stack' = Push("worker", Frame("rt"))
    /\ UNCHANGED <<lock, callbacks, invoked, invoked_by, exited, at_first, snap_first,
                   first_returned, kvars, dvars, cvars, evars>>

\* is_terminating / should_terminate() is called by a thread that is in no call
CallIsTerminating(t) ==
    /\ ~exited
    /\ Depth(t) = 0
    /\ stack' = Push(t, Frame("it"))
    /\ UNCHANGED <<lock, callbacks, invoked, invoked_by, exited, requests, at_first,
                   snap_first, first_returned, kvars, dvars, cvars, evars>>

\* "with self._lock:" of either method: waits until the lock is free
AcquireLock(t) ==
    /\ ~exited
    /\ Depth(t) > 0
    /\ Top(t).pc = "lock"
    /\ lock = <<>>
    /\ lock' = <<t, Depth(t)>>
    /\ stack' = SetTop(t, [Top(t) EXCEPT !.pc = IF Top(t).op = "rt" THEN "inc" ELSE "read"])
    /\ UNCHANGED <<callbacks, invoked, invoked_by, exited, requests, at_first, snap_first,
                   first_returned, kvars, dvars, cvars, evars>>

\* is_terminating: "return self._terminating", the lock is released
IsTerminatingReturn(t) ==
    /\ ~exited
    /\ AtTop(t, "it", "read")
    /\ lock' = <<>>
    /\ stack' = Pop(t)
    /\ UNCHANGED <<callbacks, invoked, invoked_by, exited, requests, at_first, snap_first,
                   first_returned, kvars, dvars, cvars, evars>>

\* request_termination, lines 42-45: the increment and the branches
Increment(t) ==
    /\ ~exited
    /\ AtTop(t, "rt", "inc")
    /\ kill_counter' = kill_counter + 1
    /\ stack' = SetTop(t, [Top(t) EXCEPT
                    !.k = kill_counter + 1,
                    !.pc = IF TerminationInProgress
                           THEN IF ForceExitDue(kill_counter + 1) THEN "exit" ELSE "info"
                           ELSE "set"])
    /\ UNCHANGED <<terminating, lock, callbacks, invoked, invoked_by, exited, requests,
                   at_first, snap_first, first_returned, dvars, cvars, evars>>

\* lines 46-48: the print and os._exit(1)
ForceExit(t) ==
    /\ ~exited
    /\ AtTop(t, "rt", "exit")
    /\ exited' = TRUE
    /\ UNCHANGED <<stack, lock, callbacks, invoked, invoked_by, requests, at_first,
                   snap_first, first_returned, kvars, dvars, cvars, evars>>

\* lines 50-51: the print and the return, which releases the lock
InfoReturn(t) ==
    /\ ~exited
    /\ AtTop(t, "rt", "info")
    /\ lock' = <<>>
    /\ stack' = Pop(t)
    /\ UNCHANGED <<callbacks, invoked, invoked_by, exited, requests, at_first, snap_first,
                   first_returned, kvars, dvars, cvars, evars>>

\* line 52 and the end of the with block: the flag is set, the lock released
SetTerminating(t) ==
    /\ ~exited
    /\ AtTop(t, "rt", "set")
    /\ terminating' = TRUE
    /\ lock' = <<>>
    /\ at_first' = IF terminating THEN at_first ELSE callbacks
    /\ stack' = SetTop(t, [Top(t) EXCEPT !.pc = "snap"])
    /\ UNCHANGED <<kill_counter, callbacks, invoked, invoked_by, exited, requests,
                   snap_first, first_returned, dvars, cvars, evars>>

\* line 58: "list(self._callbacks)"
Snapshot(t) ==
    /\ ~exited
    /\ AtTop(t, "rt", "snap")
    /\ stack' = SetTop(t, [Top(t) EXCEPT !.pc = "call", !.todo = callbacks])
    /\ snap_first' = IF Top(t).k = 1 THEN callbacks ELSE snap_first
    /\ UNCHANGED <<lock, callbacks, invoked, invoked_by, exited, requests, at_first,
                   first_returned, kvars, dvars, cvars, evars>>

\* a cleanup callback returns, or raises an Exception
CallbackOutcomes == {"returns", "raises"}

\* what a callback raises leaves request_termination
Propagates_Raise(o) == o = "raises"

\* "except Exception as e: print(...)": nothing a callback raises leaves the loop
Propagates(o) == FALSE

\* lines 58-62: one callback of the snapshot is called; an exception that is not
\* caught would end the request with the rest of the snapshot uncalled
RunCallback(t, cb) ==
    /\ ~exited
    /\ AtTop(t, "rt", "call")
    /\ cb \in Top(t).todo
    /\ invoked' = [invoked EXCEPT ![cb] = @ + 1]
    /\ invoked_by' = [invoked_by EXCEPT ![cb] = @ \cup {Top(t).k}]
    /\ \E o \in CallbackOutcomes :
          /\ cb_raised' = IF o = "raises" THEN cb_raised \cup {cb} ELSE cb_raised
          /\ IF Propagates(o)
             THEN /\ stack' = Pop(t)
                  /\ first_returned' = (first_returned \/ Top(t).k = 1)
             ELSE /\ stack' = SetTop(t, [Top(t) EXCEPT !.todo = @ \ {cb}])
                  /\ UNCHANGED first_returned
    /\ UNCHANGED <<lock, callbacks, exited, requests, at_first, snap_first,
                   kvars, dvars, cvars, file_lines, callback_log, send_locks,
                   gvars, svars>>

\* the loop is over: request_termination returns
RequestReturn(t) ==
    /\ ~exited
    /\ AtTop(t, "rt", "call")
    /\ Top(t).todo = {}
    /\ stack' = Pop(t)
    /\ first_returned' = (first_returned \/ Top(t).k = 1)
    /\ UNCHANGED <<lock, callbacks, invoked, invoked_by, exited, requests, at_first,
                   snap_first, kvars, dvars, cvars, evars>>

\* register_callback, by a thread that is in no call into the handler
RegisterCallback(t, cb) ==
    /\ ~exited
    /\ Depth(t) = 0
    /\ cb \notin callbacks
    /\ callbacks' = callbacks \cup {cb}
    /\ UNCHANGED <<stack, lock, invoked, invoked_by, exited, requests, at_first,
                   snap_first, first_returned, kvars, dvars, cvars, evars>>

\* unregister_callback
UnregisterCallback(t, cb) ==
    /\ ~exited
    /\ Depth(t) = 0
    /\ cb \in callbacks
    /\ callbacks' = callbacks \ {cb}
    /\ UNCHANGED <<stack, lock, invoked, invoked_by, exited, requests, at_first,
                   snap_first, first_returned, kvars, dvars, cvars, evars>>

\* a process with the coordinator's signal handlers installed and two threads
InitTerm ==
    /\ InitHandlerIdle
    /\ terminating = FALSE
    /\ kill_counter = 0
    /\ live = FALSE
    /\ threads = 1
    /\ pending_list = <<>>
    /\ pending_index = 0
    /\ pipeline_mode = FALSE
    /\ input_queue = <<>>
    /\ futs = <<>>
    /\ in_flight = {}
    /\ done_futures = {}
    /\ submitted_proxies = {}
    /\ working_proxies = [b \in Buckets |-> {}]
    /\ executor_shutdown = FALSE
    /\ files = NoFiles
    /\ last_write = "none"
    /\ resume_file = <<>>
    /\ pc = "none"
    /\ validator_calls = [c \in Candidates |-> 0]
    /\ scraper_pc = "none"
    /\ InitCoordinatorIdle
    /\ file_lines = <<>>
    /\ callback_log = {}
    /\ InitScopeIdle
    /\ InitScrapeIdle

\* the steps of the threads' frames
ThreadStep ==
    \E t \in Threads :
        \/ AcquireLock(t)
        \/ IsTerminatingReturn(t)
        \/ Increment(t)
        \/ ForceExit(t)
        \/ InfoReturn(t)
        \/ SetTerminating(t)
        \/ Snapshot(t)
        \/ \E cb \in CallbackNames : RunCallback(t, cb)
        \/ RequestReturn(t)

NextTerm ==
    \/ Signal
    \/ ExplicitRequest
    \/ \E t \in Threads : CallIsTerminating(t)
    \/ \E t \in Threads, cb \in CallbackNames : RegisterCallback(t, cb)
    \/ \E t \in Threads, cb \in CallbackNames : UnregisterCallback(t, cb)
    \/ ThreadStep

SpecTerm == InitTerm /\ [][NextTerm]_vars

\* a dispatcher run of either kind: cmd_check on a static list, or cmd_run
InitAny == InitCheck \/ InitRun

Spec == InitAny /\ [][NextRun]_vars

\* ------------------------------------------ termination scopes (main thread)
\* termination_context as the programs use it: on the main thread, each scope with
\* the closures of its own call as callbacks.  scopes lists the scopes entered so
\* far, the open ones nested in the order they were entered.
MaxScopes == 3

OpenScopes == {i \in 1..Len(scopes) : scopes[i].state = "open"}
Innermost == CHOOSE i \in OpenScopes : \A j \in OpenScopes : j <= i
ScopeCallbacks == UNION {scopes[i].callbacks : i \in 1..Len(scopes)}

\* a new handler object for every scope
GetTerminationHandler_Fresh(flag) == FALSE

\* get_termination_handler: the one global handler, created once; its flag is
\* what it was
GetTerminationHandler(flag) == flag

\* the callbacks stay registered
CallbacksAfterExit_Keep(cbs, own) == cbs

\* "for callback in callbacks: handler.unregister_callback(callback)"
CallbacksAfterExit(cbs, own) == cbs \ own

\* "with termination_context(callbacks)": the callbacks are registered, then
\* register_signals installs request_termination unless _signals_registered
EnterScope(cbs) ==
    /\ ~exited
    /\ Len(scopes) < MaxScopes
    /\ cbs \cap (callbacks \cup ScopeCallbacks) = {}
    /\ terminating' = GetTerminationHandler(terminating)
    /\ callbacks' = callbacks \cup cbs
    /\ IF signals_registered
       THEN UNCHANGED <<original_handlers, sigint_handler, signals_registered>>
       ELSE /\ original_handlers' = <<sigint_handler>>
            /\ sigint_handler' = "coordinator"
            /\ signals_registered' = TRUE
    /\ scopes' = Append(scopes, [callbacks |-> cbs, state |-> "open"])
    /\ UNCHANGED <<kill_counter, stack, lock, invoked, invoked_by, exited, requests,
                   at_first, snap_first, first_returned, dvars, cvars, lvars, svars>>

\* the block of the innermost scope is left, by return or by an exception; the
\* finally clause calls restore_signals and unregisters the scope's callbacks
ExitScope(how) ==
    /\ ~exited
    /\ OpenScopes # {}
    /\ sigint_handler' =
          IF original_handlers # <<>> THEN original_handlers[1] ELSE sigint_handler
    /\ signals_registered' = FALSE
    /\ callbacks' = CallbacksAfterExit(callbacks, scopes[Innermost].callbacks)
    /\ scopes' = [scopes EXCEPT ![Innermost].state = how]
    /\ UNCHANGED <<original_handlers, kvars, stack, lock, invoked, invoked_by, exited,
                   requests, at_first, snap_first, first_returned, dvars, cvars, lvars,
                   svars>>

\* request_termination, from the installed signal handler or called directly
ScopeRequest ==
    /\ ~exited
    /\ kill_counter' = kill_counter + 1
    /\ IF terminating
       THEN /\ exited' = (KillLimit - (kill_counter + 1) <= 0)
            /\ UNCHANGED <<terminating, invoked>>
       ELSE /\ terminating' = TRUE
            /\ invoked' = [cb \in CallbackNames |->
                             IF cb \in callbacks THEN invoked[cb] + 1 ELSE invoked[cb]]
            /\ UNCHANGED exited
    /\ UNCHANGED <<stack, lock, callbacks, invoked_by, requests, at_first, snap_first,
                   first_returned, dvars, cvars, evars>>

\* register_callback and unregister_callback called directly, with a callback
\* that belongs to no scope
ScopeRegister == \E cb \in CallbackNames \ ScopeCallbacks : RegisterCallback("main", cb)
ScopeUnregister == \E cb \in CallbackNames \ ScopeCallbacks : UnregisterCallback("main", cb)

InitScope ==
    /\ InitHandlerIdle
    /\ InitScopeIdle
    /\ InitScrapeIdle
    /\ InitCoordinatorIdle
    /\ terminating = FALSE
    /\ kill_counter = 0
    /\ live = FALSE
    /\ threads = 1
    /\ pending_list = <<>>
    /\ pending_index = 0
    /\ pipeline_mode = FALSE
    /\ input_queue = <<>>
    /\ futs = <<>>
    /\ in_flight = {}
    /\ done_futures = {}
    /\ submitted_proxies = {}
    /\ working_proxies = [b \in Buckets |-> {}]
    /\ executor_shutdown = FALSE
    /\ files = NoFiles
    /\ last_write = "none"
    /\ resume_file = <<>>
    /\ pc = "none"
    /\ validator_calls = [c \in Candidates |-> 0]
    /\ scraper_pc = "none"
    /\ file_lines = <<>>
    /\ callback_log = {}

NextScope ==
    \/ \E cbs \in SUBSET CallbackNames : EnterScope(cbs)
    \/ \E how \in {"returned", "raised"} : ExitScope(how)
    \/ ScopeRequest
    \/ ScopeRegister
    \/ ScopeUnregister

SpecScope == InitScope /\ [][NextScope]_vars

\* ------------------------------------------- an uninterrupted static-list run
MaxLines == 3
MaxStaticCand == 2
MaxStaticThreads == 2

\* the candidate lines of the input files, duplicates included.  Candidates differ
\* in identity only, so they are numbered in the order of their first lines.
InputLines ==
    {l \in UNION {[1..k -> 1..MaxStaticCand] : k \in 1..MaxLines} :
        \A i \in 1..Len(l) : l[i] = 1 \/ \E j \in 1..(i - 1) : l[j] = l[i] - 1}

\* load_proxies_from_patterns: the lines are collected in a set and the set is
\* returned as a list in any order (random.shuffle)
LoadProxiesFromPatterns(lines) ==
    {l \in [1..Cardinality(Range(lines)) -> Range(lines)] : Range(l) = Range(lines)}

InitStatic ==
    /\ live = FALSE
    /\ file_lines \in InputLines
    /\ callback_log = {}
    /\ pending_list \in LoadProxiesFromPatterns(file_lines)
    /\ pipeline_mode = FALSE
    /\ input_queue = <<>>
    /\ scraper_pc = "none"
    /\ threads \in 1..MaxStaticThreads
    /\ pending_index = 0
    /\ futs = <<>>
    /\ in_flight = {}
    /\ done_futures = {}
    /\ submitted_proxies = {}
    /\ working_proxies = [b \in Buckets |-> {}]
    /\ executor_shutdown = FALSE
    /\ files = NoFiles
    /\ last_write = "none"
    /\ resume_file = <<>>
    /\ pc = "loop"
    /\ validator_calls = [c \in Candidates |-> 0]
    /\ terminating = FALSE
    /\ kill_counter = 0
    /\ InitCoordinatorIdle
    /\ InitHandlerIdle
    /\ InitScopeIdle
    /\ InitScrapeIdle

\* the steps of run_checker_pipeline, on the main thread
DispatcherStep ==
    \/ CheckTerminate
    \/ TopUp
    \/ \E f \in 1..Len(futs) : Collect(f)
    \/ AfterLoop
    \/ FinalSave

\* a validate call that was started resolves
ValidateResolves == \E f \in 1..Len(futs), r \in Results : WorkerFinish(f, r)

NextStatic ==
    \/ DispatcherStep
    \/ WorkerStart
    \/ ValidateResolves

SpecStatic == InitStatic /\ [][NextStatic]_vars

\* the main thread and the pool workers are scheduled, and every validate call
\* resolves (check_proxy works under a timeout)
FairStatic ==
    /\ SpecStatic
    /\ WF_vars(DispatcherStep)
    /\ WF_vars(WorkerStart)
    /\ WF_vars(ValidateResolves)

\* ------------------------------------- validate calls that fail, in any run
\* a run of either kind in which a validate call may also raise; no termination
\* request arrives
ValidateOutcomes == {r \in Results : r.protocols \subseteq {"http"}}

NextValidate ==
    \/ DispatcherStep
    \/ WorkerStart
    \/ \E f \in 1..Len(futs), r \in ValidateOutcomes : WorkerFinish(f, r)
    \/ \E s \in Sources, batch \in Batches : OnProxyScraped(s, batch)
    \/ ScraperReturn
    \/ ScraperExit

SpecValidate == InitAny /\ [][NextValidate]_vars

\* a unified run without a termination request, all discovery events of one source
NextLive ==
    \/ DispatcherStep
    \/ WorkerStart
    \/ \E f \in 1..Len(futs), r \in RunResults : WorkerFinish(f, r)
    \/ \E batch \in Batches : OnProxyScraped("A", batch)
    \/ ScraperReturn
    \/ ScraperExit

\* the main thread, the pool workers and the scraper thread are scheduled, and
\* every validate call resolves (check_proxy works under a timeout)
FairLive ==
    /\ InitRun
    /\ [][NextLive]_vars
    /\ WF_vars(DispatcherStep)
    /\ WF_vars(WorkerStart)
    /\ WF_vars(\E f \in 1..Len(futs), r \in RunResults : WorkerFinish(f, r))
    /\ WF_vars(\/ \E batch \in Batches : OnProxyScraped("A", batch)
               \/ ScraperReturn
               \/ ScraperExit)

\* ------------------------------------------------- a long static-list run
\* cmd_check on a list long enough to pass two multiples of SAVE_BATCH_SIZE.
\* The first MaxDoubtful candidates may come to any outcome; every other one is
\* Usable, with the protocols alternating between the two kinds of details.
\* The run has one worker: the writes are made by the main thread alone.
BatchLen == 2 * SAVE_BATCH_SIZE + MaxDoubtful + 1
BatchCandidates == 1..BatchLen
BatchOutcomes(c) ==
    IF c <= MaxDoubtful THEN Results
    ELSE {[kind |-> "usable",
           protocols |-> IF c % 2 = 1 THEN {"http"} ELSE {"socks4", "socks5", "https"}]}

InitBatch ==
    /\ live = FALSE
    /\ pending_list = [i \in 1..BatchLen |-> i]
    /\ pipeline_mode = FALSE
    /\ input_queue = <<>>
    /\ scraper_pc = "none"
    /\ threads = 1
    /\ pending_index = 0
    /\ futs = <<>>
    /\ in_flight = {}
    /\ done_futures = {}
    /\ submitted_proxies = {}
    /\ working_proxies = [b \in Buckets |-> {}]
    /\ executor_shutdown = FALSE
    /\ files = NoFiles
    /\ last_write = "none"
    /\ resume_file = <<>>
    /\ pc = "loop"
    /\ validator_calls = [c \in BatchCandidates |-> 0]
    /\ terminating = FALSE
    /\ kill_counter = 0
    /\ InitCoordinatorIdle
    /\ InitHandlerIdle
    /\ file_lines = pending_list
    /\ callback_log = {}
    /\ InitScopeIdle
    /\ InitScrapeIdle

NextBatch ==
    \/ CheckTerminate
    \/ TopUp
    \/ \E f \in 1..Len(futs) : Collect(f)
    \/ AfterLoop
    \/ FinalSave
    \/ WorkerStart
    \/ \E f \in 1..Len(futs) : \E r \in BatchOutcomes(futs[f].proxy) : WorkerFinish(f, r)
    \/ Interrupt

SpecBatch == InitBatch /\ [][NextBatch]_vars

\* ------------------------------------------------- a run of the Source Dispatcher
\* main() after the submissions of lines 366-391: every selected task is queued
InitScrape ==
    /\ tasks_to_run \in SUBSET TaskNames \ {{}}
    /\ fut_state = [t \in TaskNames |-> IF t \in tasks_to_run THEN "pending" ELSE "none"]
    /\ fut_outcome = [t \in TaskNames |-> NoOutcome]
    /\ pending_futures = tasks_to_run
    /\ s_done_futures = {}
    /\ results = [t \in TaskNames |-> <<>>]
    /\ executors_shutdown = {}
    /\ finally_index = 0
    /\ final_proxies = <<>>
    /\ s_pc = "poll"
    /\ InitHandlerIdle
    /\ terminating = FALSE
    /\ kill_counter = 0
    /\ live = FALSE
    /\ threads = 1
    /\ pending_list = <<>>
    /\ pending_index = 0
    /\ pipeline_mode = FALSE
    /\ input_queue = <<>>
    /\ futs = <<>>
    /\ in_flight = {}
    /\ done_futures = {}
    /\ submitted_proxies = {}
    /\ working_proxies = [b \in Buckets |-> {}]
    /\ executor_shutdown = FALSE
    /\ files = NoFiles
    /\ last_write = "none"
    /\ resume_file = <<>>
    /\ pc = "none"
    /\ validator_calls = [c \in Candidates |-> 0]
    /\ scraper_pc = "none"
    /\ InitCoordinatorIdle
    /\ file_lines = <<>>
    /\ callback_log = {}
    /\ InitScopeIdle

\* the steps of main() itself
MainStep ==
    \/ Poll
    \/ \E name \in TaskNames : CollectResult(name)
    \/ JoinPool
    \/ Recover
    \/ PostProcess

NextScrape ==
    \/ MainStep
    \/ \E name \in TaskNames : TaskStart(name)
    \/ \E name \in TaskNames : \E o \in TaskOutcomes(name) : TaskFinish(name, o)
    \/ InterruptScrape

SpecScrape == InitScrape /\ [][NextScrape]_vars

\* main() is scheduled: a step of it that can be taken is taken.  Nothing is assumed
\* about a scraper function: a task that runs may run for ever.
FairScrape == SpecScrape /\ WF_vars(MainStep)

\* ---------------------------------------------------------------- properties
\* run_checker_pipeline has returned: after the final save, or by line 199
Returned == pc \in {"done", "aborted"}
\* the unified run is over: the dispatcher returned and the scraper thread ended
RunOver == Returned /\ scraper_pc = "ended"

\* C1: the validator capability is invoked at most once for each distinct
\* candidate string, whatever arrives from the static list, the input files, the
\* live channel and the sources (also repeatedly).
C1_SubmitOnce == \A c \in Candidates : validator_calls[c] <= 1

\* a candidate that reached the channel at least twice, is no longer on it, and
\* was validated once
C1_Witness ==
    \E c \in Candidates :
        /\ queue_puts[c] >= 2
        /\ c \notin Range(input_queue)
        /\ validator_calls[c] = 1
        /\ pc = "done"

\* C2: the number of outstanding validation calls (submitted and not yet
\* collected) is at most 2N in every reachable state.
C2_Backpressure == Cardinality(in_flight) <= 2 * threads

\* the window is full while more candidates are waiting
C2_Witness ==
    /\ Cardinality(in_flight) = 2 * threads
    /\ pc = "topup"
    /\ (pending_index < Len(pending_list) \/ input_queue # <<>>)

\* C3: when a static-list run was interrupted and has ended, the resume file
\* holds exactly (static list - submitted) union (candidates in flight); nothing
\* is written when that set is empty.
C3_ResumeWritten ==
    (~live /\ Returned /\ terminating) =>
        resume_file = IF Remaining = {} THEN <<>> ELSE <<Remaining>>

\* C4: whenever a run has ended with at least one candidate recorded Usable, the
\* last write was the final one and the 'all' bucket and every non-empty protocol
\* bucket are on storage.
C4_FinalFlush ==
    (Returned /\ working_proxies["all"] # {}) =>
        /\ last_write = "final"
        /\ \A b \in Buckets : working_proxies[b] # {} => files[b] = working_proxies[b]

\* C7: at the end of the run, a candidate X that two sources A and B each
\* reported once and that was recorded Usable has contributed exactly 1 to
\* A.scraped, B.scraped, A.working and B.working, and was validated exactly once.
C7_Attribution ==
    RunOver =>
        \A x \in Candidates : \A a, b \in Sources :
            (/\ a # b
             /\ reports[a][x] = 1
             /\ reports[b][x] = 1
             /\ x \in working_proxies["all"])
            => /\ scraped[a][x] = 1
               /\ scraped[b][x] = 1
               /\ working[a][x] = 1
               /\ working[b][x] = 1
               /\ validator_calls[x] = 1

\* both sources reported X once each and X was recorded Usable, run over
C7_Witness ==
    /\ RunOver
    /\ \E x \in Candidates : \E a, b \in Sources :
            /\ a # b
            /\ reports[a][x] = 1
            /\ reports[b][x] = 1
            /\ x \in working_proxies["all"]
            /\ working[a][x] = 1
            /\ working[b][x] = 1

\* C8: each candidate is put on the channel by discovery events exactly once,
\* at the event that first makes its source set non-empty, and never again.
C8_EnqueueOnce ==
    \A c \in Candidates : queue_puts[c] = IF proxy_to_sources[c] # {} THEN 1 ELSE 0

\* C9: between events, s.working is the number of distinct candidates
\* attributed to s whose cached outcome is Usable.
C9_WorkingCount ==
    \A s \in Sources :
        StatsWorking(s) =
            Cardinality({c \in Candidates :
                            s \in proxy_to_sources[c] /\ checked_cache[c] = <<TRUE>>})

\* C10: the end-of-stream marker is put at most once and only by the ended
\* scraper thread, exactly once when that thread has ended, and no discovery
\* event enqueues a candidate after it.
C10_MarkerOnce ==
    /\ sentinel_puts <= 1
    /\ (sentinel_puts = 1 => scraper_pc = "ended")
    /\ (scraper_pc = "ended" => sentinel_puts = 1)
    /\ ~put_after_sentinel

\* a thread is in no call, or waits for the lock
Idle(t) == Depth(t) = 0
Blocked(t) == Depth(t) > 0 /\ Top(t).pc = "lock" /\ lock # <<>>
\* no frame of any thread can take a step
Quiescent == \A t \in Threads : Idle(t) \/ Blocked(t)

\* C5: the process is force-exited exactly at the third termination request:
\* never before the kill counter reaches 3, by a request that calls no callback,
\* and once three requests were made and have run as far as they can, the
\* process has exited.
C5_ForcedExitAtThird ==
    /\ exited => kill_counter = KillLimit
    /\ \A cb \in CallbackNames : invoked_by[cb] \subseteq {1}
    /\ (requests >= KillLimit /\ Quiescent) => exited

\* C6 (as claimed): once the first request has returned, every callback that was
\* registered when the flag was set has been called exactly once, by that
\* request, and no other request called any callback.
C6_RegisteredAtFlag ==
    /\ \A cb \in CallbackNames : invoked[cb] <= 1 /\ invoked_by[cb] \subseteq {1}
    /\ first_returned => \A cb \in at_first : invoked[cb] = 1

\* C6 (amended): the callbacks called are those in the callback set when the
\* first request takes its snapshot of it (after the flag is set and the lock
\* released): each is called at most once and only by the first request, and
\* exactly once when that request has returned; no later request calls any.
C6_SnapshotOnce ==
    /\ \A cb \in CallbackNames :
          /\ invoked[cb] <= 1
          /\ invoked_by[cb] \subseteq {1}
          /\ (invoked[cb] > 0 => cb \in snap_first)
    /\ first_returned => \A cb \in snap_first : invoked[cb] = 1

\* the first request returned after calling two callbacks, and a later request
\* has been counted
C6_Witness ==
    /\ first_returned
    /\ Cardinality(snap_first) = 2
    /\ \A cb \in snap_first : invoked[cb] = 1
    /\ kill_counter >= 2

\* the largest multiple of SAVE_BATCH_SIZE that is at most n
LastMultiple(n) == n - (n % SAVE_BATCH_SIZE)

\* C11: an interim write of the buckets happens each time the number of Usable
\* results reaches a multiple of 25, and at no other count: until the final
\* write, the 'all' file holds as many candidates as the latest multiple of 25
\* reached, every file holds only recorded candidates, and while the count
\* stands at a multiple of 25 every bucket's file is exactly that bucket.
C11_BatchPersistence ==
    LET n == Cardinality(working_proxies["all"]) IN
    last_write # "final" =>
        /\ Cardinality(files["all"]) = LastMultiple(n)
        /\ \A b \in Buckets : files[b] \subseteq working_proxies[b]
        /\ (n % SAVE_BATCH_SIZE = 0 => \A b \in Buckets : files[b] = working_proxies[b])
        /\ (last_write = "interim" <=> n >= SAVE_BATCH_SIZE)

\* the second interim write has happened, after a candidate that was not Usable
\* was collected, and one more Usable result has been recorded since
C11_Witness ==
    /\ last_write = "interim"
    /\ Cardinality(files["all"]) = 2 * SAVE_BATCH_SIZE
    /\ Cardinality(working_proxies["all"]) = 2 * SAVE_BATCH_SIZE + 1
    /\ \E b \in Protocols : files[b] # {}
    /\ \E c \in submitted_proxies : c \notin working_proxies["all"] /\ validator_calls[c] = 1

\* The host of a candidate string: surrounding whitespace and the credentials
\* before "@" set aside.
RECURSIVE StripLeft(_)
StripLeft(p) == IF p # <<>> /\ Head(p) = " " THEN StripLeft(Tail(p)) ELSE p
HostTokens(p) ==
    LET q == StripLeft(p) IN
    IF q # <<>> /\ Head(q) = "user:pass@" THEN Tail(q) ELSE q
InReservedRanges(p) ==
    LET h == HostTokens(p) IN
    /\ h # <<>>
    /\ \/ h[1] \in {"10.", "127."}
       \/ Len(h) >= 2 /\ h[1] = "192." /\ h[2] = "168."

\* C12: no candidate string whose host lies in 10.0.0.0/8, 127.0.0.0/8 or
\* 192.168.0.0/16, in either form and with or without surrounding whitespace, is
\* in the final output of the Source Dispatcher.
C12_ReservedExcluded ==
    s_pc = "done" => \A p \in final_proxies[1] : ~InReservedRanges(p)

\* C18: a task whose scraper raised has the empty list recorded; every task has a
\* record when the collection is over, and in a run that was not interrupted every
\* other task ran to its end and has what it returned recorded.
C18_FailureIsolated ==
    s_pc \in {"post", "done"} =>
        \A t \in tasks_to_run :
            /\ results[t] # <<>>
            /\ (fut_outcome[t].kind = "raises" => results[t] = << <<>> >>)
            /\ (~terminating =>
                  /\ fut_state[t] = "finished"
                  /\ (fut_outcome[t].kind = "returns" => results[t] = <<fut_outcome[t].data>>))

\* a task of each pool failed and a sibling's list was recorded
C18_Witness ==
    /\ s_pc = "done"
    /\ ~terminating
    /\ \E t \in tasks_to_run \ AUTOMATION_SCRAPER_NAMES :
          fut_outcome[t].kind = "raises" /\ results[t] = << <<>> >>
    /\ \E t \in tasks_to_run \cap HEADFUL_SCRAPERS :
          fut_outcome[t].kind = "raises" /\ results[t] = << <<>> >>
    /\ \E u \in tasks_to_run : results[u] = << <<Public>> >>

\* C19: at most one headful task is running at any time, and a headful task
\* starts only when no headful task is running.
C19_HeadfulExclusive ==
    /\ [](Cardinality(RunningIn("headful")) <= 1)
    /\ [][\A t \in HEADFUL_SCRAPERS :
            (fut_state[t] = "pending" /\ fut_state'[t] = "running")
                => RunningIn("headful") = {}]_vars

\* a headful task runs together with a regular and a headless one while the other
\* headful task waits in the queue
C19_Witness ==
    /\ fut_state["Spys.one"] = "running"
    /\ fut_state["Hide.mn"] = "pending"
    /\ fut_state["ProxyScrape"] = "running"
    /\ fut_state["OpenProxyList"] = "running"

\* C20: once termination is requested while the dispatcher is polling, the
\* dispatcher goes through to the end of its post-processing, whether or not the
\* tasks that are running ever finish.
C20_StopsWaiting ==
    (terminating /\ s_pc \in {"poll", "for"}) ~> (s_pc = "done")

\* the candidates whose validate call came to Usable
UsableSet == {futs[f].proxy : f \in {g \in 1..Len(futs) : futs[g].result.kind = "usable"}}

\* C13: an uninterrupted static-list run terminates; when it has, the validator
\* was called once for each distinct candidate of the input and for nothing else,
\* and the 'all' bucket, and the final 'all' file, hold exactly the Usable set.
C13_StaticRunCompletes ==
    /\ <>(pc = "done")
    /\ [](pc = "done" =>
            /\ \A c \in Candidates :
                  validator_calls[c] = IF c \in Range(file_lines) THEN 1 ELSE 0
            /\ SumOver(validator_calls, Candidates) = Cardinality(Range(file_lines))
            /\ working_proxies["all"] = UsableSet
            /\ files["all"] = UsableSet)

\* a finished run on an input with a duplicate line, two workers, a Usable and a
\* not Usable candidate
C13_Witness ==
    /\ pc = "done"
    /\ Len(file_lines) > Cardinality(Range(file_lines))
    /\ Cardinality(Range(file_lines)) >= 2
    /\ threads >= 2
    /\ UsableSet # {}
    /\ UsableSet # Range(file_lines)

\* the futures whose result the dispatcher has taken out of in_flight
Collected == {f \in 1..Len(futs) : futs[f].state = "finished" /\ f \notin in_flight}

\* C17: a candidate whose validate call came to Unusable or raised is in no
\* bucket and, with a result callback, was reported as (candidate, false, {});
\* the run is not ended by it: without a termination request the pipeline does
\* not abort, and when it is done every submitted candidate has been collected.
C17_FailureHandled ==
    /\ \A f \in Collected :
          futs[f].result.kind \in {"unusable", "raises"} =>
              /\ \A b \in Buckets : futs[f].proxy \notin working_proxies[b]
              /\ (live => <<futs[f].proxy, FALSE, {}>> \in callback_log)
              /\ \A e \in callback_log : e[1] = futs[f].proxy => e = <<e[1], FALSE, {}>>
    /\ (~terminating => pc # "aborted")
    /\ (~terminating /\ pc = "done" =>
          /\ Collected = 1..Len(futs)
          /\ ~live => Range(pending_list) \subseteq submitted_proxies)

\* a unified run that went on after a call that raised: the next candidate was
\* validated, found Usable and stored
C17_Witness ==
    /\ live
    /\ pc = "done"
    /\ ~terminating
    /\ \E f, g \in Collected :
          /\ f < g
          /\ futs[f].result.kind = "raises"
          /\ futs[g].result.kind = "usable"
          /\ futs[g].proxy \in working_proxies["all"]
          /\ <<futs[f].proxy, FALSE, {}>> \in callback_log

\* C14: is_terminating returns the flag; once the flag is set no step of the
\* process clears it: not a request, not a registration, not entering or leaving
\* a scope with its restore_signals.
C14_FlagIrreversible == [][terminating => terminating']_vars

\* the flag is still set after later requests, a registration, and after a scope
\* was entered and another was left
C14_Witness ==
    /\ terminating
    /\ kill_counter = 2
    /\ callbacks \ ScopeCallbacks # {}
    /\ OpenScopes # {}
    /\ \E i \in 1..Len(scopes) : scopes[i].state # "open"
    /\ signals_registered = FALSE

C16_OutermostOwnsHandlers ==
    OpenScopes # {} => sigint_handler = "coordinator"

\* C21: in live-channel mode without a termination request the dispatcher does
\* not finish before it has taken the end-of-stream marker from the channel; when
\* it has finished the channel is empty and every candidate that was enqueued is
\* in the submitted set; and once the marker is taken and nothing is in flight
\* the dispatcher finishes.
C21_MarkerIsExhaustion ==
    /\ [](live /\ pc \in {"after_loop", "final", "done"} =>
            /\ ~pipeline_mode
            /\ input_queue = <<>>
            /\ \A c \in Candidates : queue_puts[c] > 0 => c \in submitted_proxies)
    /\ (live /\ ~pipeline_mode /\ in_flight = {}) ~> (pc = "done")

\* a finished unified run in which a candidate was enqueued twice and skipped
\* the second time, and another one was validated
C21_Witness ==
    /\ live
    /\ pc = "done"
    /\ sentinel_puts = 1
    /\ \E c \in Candidates : queue_puts[c] >= 2 /\ validator_calls[c] = 1

\* C22: in a unified run every candidate that is on the validation channel, or
\* was taken from it and submitted, has been attributed: it has a source in
\* proxy_to_sources and that source's scraped counter was incremented for it.
C22_AttributedBeforeEnqueue ==
    live =>
        \A c \in Candidates :
            (c \in Range(input_queue) \/ c \in submitted_proxies) =>
                \E s \in Sources : s \in proxy_to_sources[c] /\ scraped[s][c] > 0

\* C23: when the first termination request is over, every callback of its
\* snapshot was called by it, also when some of them raised.
C23_CallbackFailureIsolated ==
    first_returned => \A cb \in snap_first : 1 \in invoked_by[cb]

\* the first request returned after calling two callbacks of which one raised
C23_Witness ==
    /\ first_returned
    /\ Cardinality(snap_first) = 2
    /\ Cardinality(cb_raised) = 1
    /\ \A cb \in snap_first : invoked[cb] = 1

\* C24: in a state in which termination has been requested no step of the
\* dispatcher hands a new validation call to the pool, at whatever point of the
\* loop the request arrived.
C24_NoSubmitAfterRequest ==
    [][terminating => Len(futs') = Len(futs) /\ submitted_proxies' = submitted_proxies]_vars

\* the request arrived between the termination check and the top-up: the submit
\* was refused and the candidate was not handed to the pool
C24_Witness ==
    /\ terminating
    /\ pc = "aborted"
    /\ \E c \in Range(pending_list) \cup Range(input_queue) :
          c # NoneSentinel /\ c \notin submitted_proxies

\* C25: no channel send is made by a thread that holds a lock: with the
\* channel's internal mutex, which the send itself takes, the sender never holds
\* more than one lock.
C25_NoLockAcrossSend ==
    \A held \in send_locks :
        /\ held = {}
        /\ Cardinality(held \cup {"queue.mutex"}) <= 1

\* C26: no thread has a signal-handler request on top of its stack that waits for
\* the coordinator's lock while the is_terminating call it interrupted, a frame
\* below it on the same thread, holds that lock.
C26_HandlerNotSelfBlocked ==
    \A t \in Threads :
        ~(/\ Depth(t) >= 2
          /\ Top(t).op = "rt"
          /\ Top(t).pc = "lock"
          /\ lock # <<>>
          /\ lock[1] = t
          /\ lock[2] < Depth(t)
          /\ stack[t][lock[2]].op = "it")

\* C27: when an interrupted static-list run has ended, every candidate of the list
\* either had its validate call return to the dispatcher or is in the resume file;
\* a candidate whose call was cancelled before a worker took it is in the resume
\* file.
C27_NoCandidateLost ==
    (~live /\ Returned /\ terminating) =>
        /\ \A c \in Range(pending_list) :
              \/ \E f \in Collected : futs[f].proxy = c
              \/ resume_file # <<>> /\ c \in resume_file[1]
        /\ \A f \in 1..Len(futs) :
              futs[f].state = "cancelled" =>
                  /\ validator_calls[futs[f].proxy] = 0
                  /\ resume_file # <<>> /\ futs[f].proxy \in resume_file[1]

\* C28: in a unified run without a termination request, once the scraper thread
\* has ended, however it ended, the Validation Dispatcher drains and returns.
C28_RunTerminates ==
    (live /\ scraper_pc = "ended") ~> (pc = "done")

\* C29: when a unified run is over, every candidate counted as working (cached
\* Usable) is counted as scraped (has a source), so the unique-working total does
\* not exceed the unique-scraped total.
C29_WorkingWithinScraped ==
    RunOver =>
        LET unique_scraped == {c \in Candidates : proxy_to_sources[c] # {}}
            unique_working == {c \in Candidates : checked_cache[c] = <<TRUE>>}
        IN  /\ unique_working \subseteq unique_scraped
            /\ Cardinality(unique_working) <= Cardinality(unique_scraped)

\* C30: when main() has returned, after normal completion or after an interruption,
\* every submitted task has an entry in results; every task whose function returned
\* has exactly what it returned in its entry, and each of those strings that is
\* neither blank nor in a reserved range is in the final output.
C30_NothingDiscarded ==
    s_pc = "done" =>
        \A t \in tasks_to_run :
            /\ results[t] # <<>>
            /\ (fut_state[t] = "finished" /\ FutureOutcome(t).kind = "returns") =>
                  /\ results[t] = <<FutureOutcome(t).data>>
                  /\ \A p \in Range(FutureOutcome(t).data) :
                        (NonBlank(p) /\ ~InReservedRanges(p)) => p \in final_proxies[1]

\* an interrupted run: a task that had returned its list was never collected by the
\* loop and its list was recovered in the finally block, while a queued task was
\* cancelled
C30_Witness ==
    /\ s_pc = "done"
    /\ terminating
    /\ \E t \in pending_futures :
          /\ fut_outcome[t] = Returns(SampleList)
          /\ results[t] = <<SampleList>>
          /\ {Public, PublicLike} \subseteq final_proxies[1]
    /\ \E u \in tasks_to_run : fut_state[u] = "cancelled" /\ results[u] = << <<>> >>

====
